---- MODULE Spec2Model ----
(***************************************************************************)
(* Model of src/code/bp_nmf.py: class LVI_BP_NMF (Laplace variational      *)
(* inference for Beta-Process sparse NMF) and comp_expect.                 *)
(*                                                                         *)
(* Number representation.  The program computes in floating point; the     *)
(* model computes the same formulas exactly, on grids of values:           *)
(*  - log-domain means (mu_phi, mu_psi) are integers, in units of ln 2;    *)
(*  - precisions (r_phi, r_psi) are integers, in units of 1/(2 ln 2), so   *)
(*    that exp(mu + 1/(2r)) = 2^(mu + 1/r) and exp(2mu + 2/r) =            *)
(*    2^(2mu + 4/r);                                                       *)
(*  - the moment caches ED, ED2, ES, ES2 hold the base-2 logarithm of the  *)
(*    cached value; Pow2 gives the value;                                  *)
(*  - p_z (= EZ, the same array) is held in halves: 0, 1, 2 for 0, 1/2, 1; *)
(*  - a0, b0, alpha are held in thousandths, c0, d0 in millionths;         *)
(*  - alpha_pi, beta_pi are numerators over PiDen = 2 * K * Milli;         *)
(*  - Epi is the pair <<numerator, denominator>>;                          *)
(*  - alpha_g, beta_g are two-part numbers [micro, eighth] standing for    *)
(*    micro / 10^6 + eighth / 8; Eg is the pair <<alpha_g, beta_g>>;       *)
(*  - X is held as 0/1 entries.                                            *)
(* The L-BFGS optimiser (scipy.optimize.fmin_l_bfgs_b) is an external      *)
(* primitive: its result mu_hat is drawn from ModeGrid, and the curvature  *)
(* df2(mu_hat), a function of exponentials of the whole state, is drawn    *)
(* from Curvatures: positive in every entry, or not positive in one entry. *)
(* The logistic of update_z is drawn from PzResults.  The value of the     *)
(* lower bound is named by the sweep that computed it.                     *)
(***************************************************************************)
EXTENDS Integers, Sequences, FiniteSets, TLC

VARIABLES
    pc,        \* "new" | "ctor_failed" | "idle" | position inside update() | "done"
    kwargs,    \* the keyword arguments given to __init__
    X, K,
    alpha, a0, b0, c0, d0,
    mu_phi, r_phi, ED, ED2,
    mu_psi, r_psi, ES, ES2,
    p_z,
    alpha_pi, beta_pi, Epi,
    alpha_g, beta_g, Eg,
    good_k,
    obj,
    update_D,  \* argument of the running (or last) update()
    pos,       \* position of the for loop of update() in good_k (1-based)
    ind_phi, ind_psi,
    ret,       \* "none" | "True" | "False" | "raised": outcome of the last update()
    nsweep,    \* number of update() calls so far
    pre,       \* history: the state when the running (or last) update() was entered
    trace      \* history: the steps the running (or last) update() has executed

vars == <<pc, kwargs, X, K, alpha, a0, b0, c0, d0, mu_phi, r_phi, ED, ED2,
          mu_psi, r_psi, ES, ES2, p_z, alpha_pi, beta_pi, Epi, alpha_g, beta_g,
          Eg, good_k, obj, update_D, pos, ind_phi, ind_psi, ret, nsweep, pre,
          trace>>

config == <<kwargs, X, K, alpha, a0, b0, c0, d0>>
dictionary == <<mu_phi, r_phi, ED, ED2>>
activation == <<mu_psi, r_psi, ES, ES2>>
usage_prior == <<alpha_pi, beta_pi, Epi>>
noise == <<alpha_g, beta_g, Eg>>

-----------------------------------------------------------------------------
(* Bounds *)

F == 1            \* rows of X
T == 2            \* columns of X
MaxK == 2         \* largest dictionary size given to the constructor
MaxSweeps == 2    \* update() calls the caller makes

(* Units *)
Milli == 10 * 100
Micro == Milli * Milli

Rows == 0 .. F - 1
Cols == 0 .. T - 1
Comps(k) == 0 .. k - 1

(* Grids of values *)
ModeGrid == {0}          \* the modes the optimiser finds
PosPrec == {1}           \* the positive curvatures
NonPosPrec == {0}        \* the curvatures that are not positive
PzGrid == {0, 1, 2}      \* 0, 1/2, 1
Inf == 2 ^ 20

-----------------------------------------------------------------------------
(* Helpers *)

RECURSIVE SumOver(_, _)
SumOver(S, f) ==
    IF S = {} THEN 0
    ELSE LET x == CHOOSE y \in S : TRUE IN f[x] + SumOver(S \ {x}, f)

RECURSIVE GCD(_, _)
GCD(a, b) == IF b = 0 THEN a ELSE GCD(b, a % b)

Ran(s) == {s[i] : i \in 1 .. Len(s)}

Pow2(e) == 2 ^ e

\* numpy.arange(n)
arange(n) == [i \in 1 .. n |-> i - 1]

\* numpy.delete(arr, where): arr without the positions in `where`
RECURSIVE np_delete(_, _, _)
np_delete(arr, where, i) ==
    IF i > Len(arr) THEN <<>>
    ELSE (IF i \in where THEN <<>> ELSE <<arr[i]>>) \o np_delete(arr, where, i + 1)

-----------------------------------------------------------------------------
(* comp_expect: E[exp(theta)] and E[exp(2 theta)] of theta ~ N(mu, 1/r), as   *)
(* base-2 logarithms; a zero precision gives an infinite exponent.           *)
comp_expect(mu, r) ==
    IF r = 0 THEN <<Inf, Inf>>
    ELSE IF r > 0 THEN <<mu + (1 \div r), 2 * mu + (4 \div r)>>
    ELSE <<mu - (1 \div (0 - r)), 2 * mu - (4 \div (0 - r))>>

-----------------------------------------------------------------------------
(* __init__ and _parse_args *)

DefaultAlpha == 2000   \* 2.   (thousandths)
DefaultA0 == 1000      \* 1.   (thousandths)
DefaultB0 == 1000      \* 1.   (thousandths)
DefaultC0 == 1         \* 1e-6 (millionths)
DefaultD0 == 1         \* 1e-6 (millionths)

NoKwargs == [n \in {} |-> 0]

\* The keyword arguments tried: none, and a0 = 0.001 alone.
KwargsSet == {NoKwargs, [n \in {"a0"} |-> 1]}

\* The X tried: all zero, all one.
XSet == {[f \in Rows |-> [t \in Cols |-> x]] : x \in {0, 1}}

\* The K tried: negative, zero, 1..MaxK.
KSet == -1 .. MaxK

\* The seeds tried
Seeds == {0, 1}

\* kwargs.get(name, default)
Get(kw, name, default) == IF name \in DOMAIN kw THEN kw[name] ELSE default

\* np.random.randn after np.random.seed(seed): entry (i, j) of a matrix
RandMu(seed, i, j) == IF (seed + i + j) % 2 = 0 THEN 0 ELSE -1

\* np.random.gamma(2, ...) > 0
RandPrec(seed, i, j) == CHOOSE r \in PosPrec : TRUE

\* np.random.rand in [0, 1): 1/2 or 0, in halves
RandPz(seed, k, t) == IF (seed + k) % 2 = 0 THEN 1 ELSE 0

\* The denominator of alpha_pi and beta_pi for a dictionary of k components
PiDen(k) == 2 * k * Milli

\* np.random.rand(K) for alpha_pi and beta_pi: 1/2, over PiDen(k)
RandBeta(k) == PiDen(k) \div 2

\* alpha_pi / (alpha_pi + beta_pi)
EpiOf(a, b) == <<a, a + b>>

\* np.random.gamma(smoothness, 1. / smoothness): 1
RandGamma == [micro |-> 0, eighth |-> 8]

Init ==
    /\ pc = "new"
    /\ kwargs = NoKwargs
    /\ X = <<>> /\ K = 0
    /\ alpha = 0 /\ a0 = 0 /\ b0 = 0 /\ c0 = 0 /\ d0 = 0
    /\ mu_phi = <<>> /\ r_phi = <<>> /\ ED = <<>> /\ ED2 = <<>>
    /\ mu_psi = <<>> /\ r_psi = <<>> /\ ES = <<>> /\ ES2 = <<>>
    /\ p_z = <<>>
    /\ alpha_pi = <<>> /\ beta_pi = <<>> /\ Epi = <<>>
    /\ alpha_g = RandGamma /\ beta_g = RandGamma /\ Eg = <<RandGamma, RandGamma>>
    /\ good_k = <<>>
    /\ obj = 0
    /\ update_D = TRUE
    /\ pos = 0
    /\ ind_phi = TRUE /\ ind_psi = TRUE
    /\ ret = "none"
    /\ nsweep = 0
    /\ pre = <<>>
    /\ trace = <<>>

\* The part of the state a sweep is compared against.
Snapshot(api, bpi, epi, ag, bg, eg, gk, o, mphi, rphi, ed, ed2, mpsi, rpsi) ==
    [alpha_pi |-> api, beta_pi |-> bpi, Epi |-> epi, alpha_g |-> ag, beta_g |-> bg,
     Eg |-> eg, good_k |-> gk, obj |-> o, mu_phi |-> mphi, r_phi |-> rphi,
     ED |-> ed, ED2 |-> ed2, mu_psi |-> mpsi, r_psi |-> rpsi]

\* LVI_BP_NMF(Xin, K=Kin, seed=seed, **kw)
Construct ==
    /\ pc = "new"
    /\ \E Xin \in XSet, Kin \in KSet, kw \in KwargsSet, seed \in Seeds :
        /\ kwargs' = kw
        /\ K' = Kin
        /\ IF Kin < 0
           THEN \* np.random.randn(F, K) raises ValueError: no object is produced
                /\ pc' = "ctor_failed"
                /\ UNCHANGED <<X, alpha, a0, b0, c0, d0, dictionary, activation, p_z,
                               usage_prior, noise, good_k>>
           ELSE LET mphi == [f \in Rows |-> [k \in Comps(Kin) |-> RandMu(seed, f, k)]]
                    rphi == [f \in Rows |-> [k \in Comps(Kin) |-> RandPrec(seed, f, k)]]
                    mpsi == [k \in Comps(Kin) |-> [t \in Cols |-> RandMu(seed + 1, k, t)]]
                    rpsi == [k \in Comps(Kin) |-> [t \in Cols |-> RandPrec(seed + 1, k, t)]]
                    api == [k \in Comps(Kin) |-> RandBeta(Kin)]
                    bpi == [k \in Comps(Kin) |-> RandBeta(Kin)]
                    epi == [k \in Comps(Kin) |-> EpiOf(api[k], bpi[k])]
                    ed == [f \in Rows |-> [k \in Comps(Kin) |->
                              comp_expect(mphi[f][k], rphi[f][k])[1]]]
                    ed2 == [f \in Rows |-> [k \in Comps(Kin) |->
                              comp_expect(mphi[f][k], rphi[f][k])[2]]]
                    es == [k \in Comps(Kin) |-> [t \in Cols |->
                              comp_expect(mpsi[k][t], rpsi[k][t])[1]]]
                    es2 == [k \in Comps(Kin) |-> [t \in Cols |->
                              comp_expect(mpsi[k][t], rpsi[k][t])[2]]]
                IN  /\ pc' = "idle"
                    /\ X' = Xin
                    /\ alpha' = Get(kw, "alpha", DefaultAlpha)
                    /\ a0' = Get(kw, "a0", DefaultA0)
                    /\ b0' = Get(kw, "b0", DefaultB0)
                    /\ c0' = Get(kw, "c0", DefaultC0)
                    /\ d0' = Get(kw, "d0", DefaultD0)
                    /\ mu_phi' = mphi /\ r_phi' = rphi /\ ED' = ed /\ ED2' = ed2
                    /\ mu_psi' = mpsi /\ r_psi' = rpsi /\ ES' = es /\ ES2' = es2
                    /\ p_z' = [k \in Comps(Kin) |-> [t \in Cols |-> RandPz(seed, k, t)]]
                    /\ alpha_pi' = api /\ beta_pi' = bpi /\ Epi' = epi
                    /\ alpha_g' = RandGamma /\ beta_g' = RandGamma
                    /\ Eg' = <<RandGamma, RandGamma>>
                    /\ good_k' = arange(Kin)
    /\ UNCHANGED <<obj, update_D, pos, ind_phi, ind_psi, ret, nsweep, pre, trace>>

-----------------------------------------------------------------------------
(* update(): one sweep *)

\* self.EZ is the same array as self.p_z (line 90)
EZ == p_z

\* What fmin_l_bfgs_b may return for a vector indexed by I (lines 181, 229)
OptimizerResults(I) == {[i \in I |-> m] : m \in ModeGrid}

\* The last index of a vector indexed by I
Last(I) == CHOOSE m \in I : \A o \in I : o <= m

\* What df2(mu_hat) may be for a vector indexed by I (lines 170-173, 218-221):
\* positive everywhere, or not positive in the last entry
Curvatures(I) ==
    {[i \in I |-> p] : p \in PosPrec} \cup
    {[i \in I |-> IF i = Last(I) THEN v ELSE p] : p \in PosPrec, v \in NonPosPrec}

\* What the logistic of update_z may give for row k (line 256)
PzResults == {[t \in Cols |-> v] : v \in PzGrid}

\* np.any(r <= 0) (lines 183, 231)
AnyNonPositive(r) == \E i \in DOMAIN r : r[i] <= 0

\* Faulty variant of DictionaryEnabled: the dictionary is updated whatever update_D is
DictionaryEnabled_Always(ud) == TRUE

\* if update_D: ... else: ind_phi = True (lines 126-129)
DictionaryEnabled(ud) == ud

\* Faulty variant of StepAfter: pruning is done before update_r
StepAfter_PruneBeforeR(step) ==
    CASE step = "phi" -> "z"
      [] step = "z" -> "psi"
      [] step = "pi" -> "prune"
      [] step = "prune" -> "r"
      [] step = "r" -> "lb"

\* The statement of update() that follows a step of the loop body or a global step
StepAfter(step) ==
    CASE step = "phi" -> "z"
      [] step = "z" -> "psi"
      [] step = "pi" -> "r"
      [] step = "r" -> "prune"
      [] step = "prune" -> "lb"

\* Faulty variant of AfterComponent: only ind_psi is tested
AfterComponent_IgnoresPhi(indphi, indpsi, p, gk) ==
    IF ~indpsi THEN "return_false"
    ELSE IF p < Len(gk) THEN "phi" ELSE "pi"

\* After update_psi(k): return False, the next k, or the global steps (lines 132-139)
AfterComponent(indphi, indpsi, p, gk) ==
    IF ~indphi \/ ~indpsi THEN "return_false"
    ELSE IF p < Len(gk) THEN "phi" ELSE "pi"

GlobalStep(name) == <<name, -1>>

\* update(update_D=ud) is entered
StartSweep ==
    /\ pc = "idle"
    /\ nsweep < MaxSweeps
    /\ \E ud \in BOOLEAN : update_D' = ud
    /\ nsweep' = nsweep + 1
    /\ pos' = 1
    /\ ret' = "none"
    /\ trace' = <<>>
    /\ pre' = Snapshot(alpha_pi, beta_pi, Epi, alpha_g, beta_g, Eg, good_k, obj,
                       mu_phi, r_phi, ED, ED2, mu_psi, r_psi)
    /\ pc' = IF good_k = <<>> THEN "pi" ELSE "phi"
    /\ UNCHANGED <<config, dictionary, activation, p_z, usage_prior, noise, good_k, obj,
                   ind_phi, ind_psi>>

\* column k of a matrix indexed [f][k] replaced by vec
SetCol(m, k, vec) == [f \in DOMAIN m |-> [m[f] EXCEPT ![k] = vec[f]]]

\* ind_phi = self.update_phi(k, disp), or ind_phi = True
UpdatePhi ==
    /\ pc = "phi"
    /\ LET k == good_k[pos] IN
        IF DictionaryEnabled(update_D)
        THEN \E mu_hat \in OptimizerResults(Rows), curv \in Curvatures(Rows) :
               /\ mu_phi' = SetCol(mu_phi, k, mu_hat)
               /\ r_phi' = SetCol(r_phi, k, curv)
               /\ IF AnyNonPositive(curv)
                  THEN /\ ind_phi' = FALSE
                       /\ UNCHANGED <<ED, ED2>>
                  ELSE /\ ind_phi' = TRUE
                       /\ ED' = SetCol(ED, k, [f \in Rows |->
                                      comp_expect(mu_hat[f], curv[f])[1]])
                       /\ ED2' = SetCol(ED2, k, [f \in Rows |->
                                      comp_expect(mu_hat[f], curv[f])[2]])
               /\ trace' = Append(trace, <<"phi", k>>)
        ELSE /\ ind_phi' = TRUE
             /\ UNCHANGED <<mu_phi, r_phi, ED, ED2, trace>>
    /\ pc' = StepAfter("phi")
    /\ UNCHANGED <<config, activation, p_z, usage_prior, noise, good_k, obj, update_D,
                   pos, ind_psi, ret, nsweep, pre>>

\* self.update_z(k)
UpdateZ ==
    /\ pc = "z"
    /\ LET k == good_k[pos] IN
        /\ \E pz \in PzResults : p_z' = [p_z EXCEPT ![k] = pz]
        /\ trace' = Append(trace, <<"z", k>>)
    /\ pc' = StepAfter("z")
    /\ UNCHANGED <<config, dictionary, activation, usage_prior, noise, good_k, obj,
                   update_D, pos, ind_phi, ind_psi, ret, nsweep, pre>>

\* ind_psi = self.update_psi(k, disp); if not ind_phi or not ind_psi: return False
UpdatePsi ==
    /\ pc = "psi"
    /\ LET k == good_k[pos] IN
        \E mu_hat \in OptimizerResults(Cols), curv \in Curvatures(Cols) :
          LET ok == ~AnyNonPositive(curv)
              next == AfterComponent(ind_phi, ok, pos, good_k)
          IN  /\ mu_psi' = [mu_psi EXCEPT ![k] = mu_hat]
              /\ r_psi' = [r_psi EXCEPT ![k] = curv]
              /\ ind_psi' = ok
              /\ IF ok
                 THEN /\ ES' = [ES EXCEPT ![k] = [t \in Cols |->
                                    comp_expect(mu_hat[t], curv[t])[1]]]
                      /\ ES2' = [ES2 EXCEPT ![k] = [t \in Cols |->
                                    comp_expect(mu_hat[t], curv[t])[2]]]
                 ELSE UNCHANGED <<ES, ES2>>
              /\ trace' = Append(trace, <<"psi", k>>)
              /\ IF next = "return_false"
                 THEN /\ pc' = "done"
                      /\ ret' = "False"
                      /\ pos' = pos
                 ELSE /\ pc' = next
                      /\ ret' = ret
                      /\ pos' = IF next = "phi" THEN pos + 1 ELSE pos
    /\ UNCHANGED <<config, dictionary, p_z, usage_prior, noise, good_k, obj, update_D,
                   ind_phi, nsweep, pre>>

-----------------------------------------------------------------------------
(* update_pi, update_r, pruning, _lower_bound *)

\* np.sum(self.EZ, axis=1)[k], in halves
SumEZ(k) == SumOver(Cols, EZ[k])

\* a0 / K + np.sum(EZ, axis=1), over PiDen(K)
update_pi_alpha(k) == 2 * a0 + K * Milli * SumEZ(k)

\* b0 * (K - 1) / K + T - np.sum(EZ, axis=1), over PiDen(K)
update_pi_beta(k) == 2 * b0 * (K - 1) + 2 * K * Milli * T - K * Milli * SumEZ(k)

\* Faulty variant of Recon: the usage probabilities EZ are left out of the product
Recon_WithoutEZ(f, t) ==
    SumOver(Ran(good_k),
            [k \in Ran(good_k) |-> Pow2(ED[f][k]) * Pow2(ES[k][t]) * 2])

\* np.dot(ED[:, good_k], ES[good_k] * EZ[good_k])[f, t], in halves
Recon(f, t) ==
    SumOver(Ran(good_k),
            [k \in Ran(good_k) |-> Pow2(ED[f][k]) * Pow2(ES[k][t]) * EZ[k][t]])

\* np.sum((X - np.dot(...))**2), in quarters
SumSqResidual ==
    SumOver(Rows \X Cols,
            [ft \in Rows \X Cols |->
                (2 * X[ft[1]][ft[2]] - Recon(ft[1], ft[2])) *
                (2 * X[ft[1]][ft[2]] - Recon(ft[1], ft[2]))])

\* c0 + .5 * F * T
update_r_alpha == [micro |-> c0, eighth |-> 4 * F * T]

\* d0 + .5 * np.sum((X - np.dot(...))**2)
update_r_beta == [micro |-> d0, eighth |-> SumSqResidual]

\* The factor 1e-3 of the pruning threshold
PruneNum == 1
PruneDen == 1000

\* x < y for rationals <<numerator, denominator>> with positive denominators
RatLess(x, y) ==
    LET g == GCD(x[2], y[2])
    IN  x[1] * (y[2] \div g) < y[1] * (x[2] \div g)

\* np.max(self.Epi[good_k])
MaxEpi(gk) ==
    LET m == CHOOSE m \in Ran(gk) : \A o \in Ran(gk) : ~RatLess(Epi[m], Epi[o])
    IN  Epi[m]

\* Faulty variant of BelowThreshold: the factor is 1e3 instead of 1e-3
BelowThreshold_Inverted(e, m) == RatLess(e, <<PruneDen * m[1], PruneNum * m[2]>>)

\* e < 1e-3 * m
BelowThreshold(e, m) == RatLess(e, <<PruneNum * m[1], PruneDen * m[2]>>)

\* np.where(self.Epi[gk] < 1e-3 * np.max(self.Epi[gk])): positions in gk
Where(gk) == {i \in 1 .. Len(gk) : BelowThreshold(Epi[gk[i]], MaxEpi(gk))}

\* Faulty variant of PruneBase: pruning starts from all K components
PruneBase_AllComponents == arange(K)

\* The array pruning starts from: the local good_k of update() (lines 124, 143)
PruneBase == good_k

\* self.update_pi()
UpdatePi ==
    /\ pc = "pi"
    /\ IF K = 0
       THEN \* self.a0 / self.K raises ZeroDivisionError
            /\ pc' = "done"
            /\ ret' = "raised"
            /\ UNCHANGED <<alpha_pi, beta_pi, Epi, trace>>
       ELSE /\ alpha_pi' = [k \in Comps(K) |-> update_pi_alpha(k)]
            /\ beta_pi' = [k \in Comps(K) |-> update_pi_beta(k)]
            /\ Epi' = [k \in Comps(K) |-> EpiOf(update_pi_alpha(k), update_pi_beta(k))]
            /\ trace' = Append(trace, GlobalStep("pi"))
            /\ pc' = StepAfter("pi")
            /\ ret' = ret
    /\ UNCHANGED <<config, dictionary, activation, p_z, noise, good_k, obj, update_D,
                   pos, ind_phi, ind_psi, nsweep, pre>>

\* self.update_r()
UpdateR ==
    /\ pc = "r"
    /\ alpha_g' = update_r_alpha
    /\ beta_g' = update_r_beta
    /\ Eg' = <<update_r_alpha, update_r_beta>>
    /\ trace' = Append(trace, GlobalStep("r"))
    /\ pc' = StepAfter("r")
    /\ UNCHANGED <<config, dictionary, activation, p_z, usage_prior, good_k, obj, update_D,
                   pos, ind_phi, ind_psi, ret, nsweep, pre>>

\* self.good_k = np.delete(good_k, np.where(...))
Prune ==
    /\ pc = "prune"
    /\ IF PruneBase = <<>>
       THEN \* np.max of an empty array raises ValueError
            /\ pc' = "done"
            /\ ret' = "raised"
            /\ UNCHANGED <<good_k, trace>>
       ELSE /\ good_k' = np_delete(PruneBase, Where(PruneBase), 1)
            /\ trace' = Append(trace, GlobalStep("prune"))
            /\ pc' = StepAfter("prune")
            /\ ret' = ret
    /\ UNCHANGED <<config, dictionary, activation, p_z, usage_prior, noise, obj,
                   update_D, pos, ind_phi, ind_psi, nsweep, pre>>

\* self._lower_bound(); return True.  obj is a value computed afresh from the
\* whole state: it is named by the sweep that computed it.
LowerBound ==
    /\ pc = "lb"
    /\ obj' = nsweep
    /\ trace' = Append(trace, GlobalStep("lb"))
    /\ ret' = "True"
    /\ pc' = "done"
    /\ UNCHANGED <<config, dictionary, activation, p_z, usage_prior, noise, good_k,
                   update_D, pos, ind_phi, ind_psi, nsweep, pre>>

\* update() has returned (or raised): its locals are gone, the caller has the result
Return ==
    /\ pc = "done"
    /\ pc' = "idle"
    /\ pos' = 0
    /\ ind_phi' = TRUE /\ ind_psi' = TRUE
    /\ ret' = "none"
    /\ update_D' = TRUE
    /\ trace' = <<>>
    /\ pre' = <<>>
    /\ UNCHANGED <<config, dictionary, activation, p_z, usage_prior, noise, good_k, obj,
                   nsweep>>

Next ==
    \/ Construct
    \/ StartSweep
    \/ UpdatePhi
    \/ UpdateZ
    \/ UpdatePsi
    \/ UpdatePi
    \/ UpdateR
    \/ Prune
    \/ LowerBound
    \/ Return

Spec == Init /\ [][Next]_vars

-----------------------------------------------------------------------------
(* Properties *)

Built == pc \notin {"new", "ctor_failed"}

InSweep == pc \in {"phi", "z", "psi", "pi", "r", "prune", "lb", "done"}

\* The component the loop of update() is at
CurrentK == good_k[pos]

GlobalsNow == <<alpha_pi, beta_pi, Epi, alpha_g, beta_g, Eg, good_k, obj>>

GlobalsBefore == <<pre.alpha_pi, pre.beta_pi, pre.Epi, pre.alpha_g, pre.beta_g,
                   pre.Eg, pre.good_k, pre.obj>>

Ran_update_r == \E i \in 1 .. Len(trace) : trace[i] = GlobalStep("r")

IsZero(x) == \A f \in Rows : \A t \in Cols : x[f][t] = 0

IsPrefix(s1, s2) == Len(s1) <= Len(s2) /\ \A i \in 1 .. Len(s1) : s1[i] = s2[i]

\* The steps of one component, then of the components after it
RECURSIVE ComponentSteps(_, _, _)
ComponentSteps(gk, ud, i) ==
    IF i > Len(gk) THEN <<>>
    ELSE (IF ud THEN <<<<"phi", gk[i]>>>> ELSE <<>>)
         \o <<<<"z", gk[i]>>, <<"psi", gk[i]>>>>
         \o ComponentSteps(gk, ud, i + 1)

\* The steps of a whole successful sweep over the active set gk
SweepSteps(gk, ud) ==
    ComponentSteps(gk, ud, 1)
    \o <<GlobalStep("pi"), GlobalStep("r"), GlobalStep("prune"), GlobalStep("lb")>>

Increasing(gk) == \A i, j \in 1 .. Len(gk) : i < j => gk[i] < gk[j]

\* x > 0 for a two-part number with non-negative parts
GPositive(x) == x.micro > 0 \/ x.eighth > 0

\* C1: when the dictionary or the activation update of a component has failed in
\* a sweep, the sweep goes no further than that component and returns False, and
\* alpha_pi, beta_pi, Epi, alpha_g, beta_g, Eg, good_k and obj hold the values
\* they had when the sweep started.
C1_FailedSweepCommitsNothing ==
    (InSweep /\ (~ind_phi \/ ~ind_psi \/ ret = "False")) =>
        /\ GlobalsNow = GlobalsBefore
        /\ pc \in {"z", "psi", "done"}
        /\ pc = "done" => ret = "False"

\* C1 witness: a sweep that follows a successful one has returned False
C1_Witness ==
    pc = "done" /\ ret = "False" /\ obj # 0 /\ ~ind_phi

\* C2: when update_phi or update_psi finds a precision <= 0, the stored mean and
\* precision of that component are as they were before the call.
C2_RejectedUpdateLeavesParameters ==
    /\ (pc = "z" /\ ~ind_phi) =>
          \A f \in Rows : /\ mu_phi[f][CurrentK] = pre.mu_phi[f][CurrentK]
                          /\ r_phi[f][CurrentK] = pre.r_phi[f][CurrentK]
    /\ (pc = "done" /\ ~ind_psi) =>
          /\ mu_psi[CurrentK] = pre.mu_psi[CurrentK]
          /\ r_psi[CurrentK] = pre.r_psi[CurrentK]

\* C3: in every state of a constructed model the cached moments of every
\* component are the moments comp_expect gives for the stored mean and precision.
C3_CachesMatchParameters ==
    Built =>
        \A k \in Comps(K) :
            /\ \A f \in Rows :
                  <<ED[f][k], ED2[f][k]>> = comp_expect(mu_phi[f][k], r_phi[f][k])
            /\ \A t \in Cols :
                  <<ES[k][t], ES2[k][t]>> = comp_expect(mu_psi[k][t], r_psi[k][t])

\* C4: the active set is a subset of {0..K-1}, and no step of a constructed model
\* adds an index to it or makes it longer, so a pruned index never comes back.
C4_ActiveSetOnlyShrinks ==
    [][Built => /\ Ran(good_k) \subseteq Comps(K)
                /\ Ran(good_k') \subseteq Ran(good_k)
                /\ Len(good_k') <= Len(good_k)]_vars

\* C4 witness: a sweep that started from a pruned active set has succeeded
C4_Witness ==
    pc = "done" /\ ret = "True" /\ Len(pre.good_k) < K /\ Len(pre.good_k) > 0

\* C5: after a successful update every entry of r_phi, r_psi, alpha_pi, beta_pi,
\* and alpha_g and beta_g, are strictly positive.
C5_PrecisionsPositiveAfterSuccess ==
    (pc = "done" /\ ret = "True") =>
        /\ \A k \in Comps(K) :
              /\ \A f \in Rows : r_phi[f][k] > 0
              /\ \A t \in Cols : r_psi[k][t] > 0
              /\ alpha_pi[k] > 0
              /\ beta_pi[k] > 0
        /\ GPositive(alpha_g)
        /\ GPositive(beta_g)

\* C6: during and after a sweep with update_D = False, successful or failed,
\* mu_phi, r_phi, ED and ED2 are what they were when the sweep started.
C6_EncodingHoldsDictionary ==
    (InSweep /\ ~update_D) =>
        /\ mu_phi = pre.mu_phi
        /\ r_phi = pre.r_phi
        /\ ED = pre.ED
        /\ ED2 = pre.ED2

\* C6 witness: an encoding sweep has succeeded and changed the activation means
\* and the usage prior
C6_Witness ==
    /\ pc = "done" /\ ret = "True" /\ ~update_D
    /\ mu_psi # pre.mu_psi
    /\ alpha_pi # pre.alpha_pi

\* Only one of a0/b0, or only one of c0/d0, is among the keyword arguments
OneOfAPair(kw) ==
    \/ ("a0" \in DOMAIN kw) # ("b0" \in DOMAIN kw)
    \/ ("c0" \in DOMAIN kw) # ("d0" \in DOMAIN kw)

\* C7: a construction given only one of a0/b0 or of c0/d0, or a K <= 0, fails
\* and produces no model.
C7_InvalidConfigurationRejected ==
    (pc # "new" /\ (OneOfAPair(kwargs) \/ K <= 0)) => pc = "ctor_failed"

\* C8 as stated: with an all-zero X, once update_r has run in a sweep,
\* alpha_g = c0 + F*T/2 and beta_g = d0.
C8_ZeroXGivesD0 ==
    (InSweep /\ Ran_update_r /\ IsZero(X)) =>
        /\ alpha_g = [micro |-> c0, eighth |-> 4 * F * T]
        /\ beta_g = [micro |-> d0, eighth |-> 0]

\* C8 amended: with an all-zero X, once update_r has run in a sweep,
\* alpha_g = c0 + F*T/2, and beta_g is d0 plus a non-negative residual term that
\* is zero exactly when EZ is 0 in every entry of every component that was
\* active when update_r ran.
C8_ZeroXNoise ==
    (InSweep /\ Ran_update_r /\ IsZero(X)) =>
        /\ alpha_g = [micro |-> c0, eighth |-> 4 * F * T]
        /\ beta_g.micro = d0
        /\ beta_g.eighth >= 0
        /\ beta_g.eighth = 0 <=>
              \A k \in Ran(pre.good_k) : \A t \in Cols : EZ[k][t] = 0

\* C8 witness: with an all-zero X update_r has run on a model whose active
\* components all have EZ = 0
C8_Witness ==
    /\ InSweep /\ Ran_update_r /\ IsZero(X)
    /\ Len(pre.good_k) >= 2
    /\ beta_g = [micro |-> d0, eighth |-> 0]

\* C9: the steps of a sweep are a prefix of: for each k of the active set at the
\* start, in increasing order, update_phi (if update_D), update_z, update_psi;
\* then update_pi, update_r, pruning, _lower_bound; a sweep that returns True
\* has executed all of them, each once.
C9_StepOrder ==
    InSweep =>
        /\ Increasing(pre.good_k)
        /\ IsPrefix(trace, SweepSteps(pre.good_k, update_D))
        /\ (pc = "done" /\ ret = "True") => trace = SweepSteps(pre.good_k, update_D)

\* C9 witness: a dictionary-learning sweep over two or more components has
\* returned True
C9_Witness ==
    pc = "done" /\ ret = "True" /\ update_D /\ Len(pre.good_k) >= 2

\* C10: for K >= 1 the active set of a constructed model is never empty.
C10_ActiveSetNeverEmpty ==
    (Built /\ K >= 1) => Len(good_k) >= 1

\* C10 witness: pruning has left a single component of several
C10_Witness ==
    Built /\ K >= 2 /\ Len(good_k) = 1 /\ pc = "lb"

====
